---- MODULE Spec2Model ----
\* Gopher-Dash (src/main.go): the Bubble Tea model, its Update handler and the
\* timer/clock environment it runs in.  One action per message handled by
\* model.Update; time is counted in whole seconds, durations in nanoseconds.
EXTENDS Integers, Sequences, FiniteSets, Bags, TLC

\* ---------------------------------------------------------------------------
\* Bounds of the exploration
\* ---------------------------------------------------------------------------
MaxW == 24        \* widest terminal delivered by a resize
MaxH == 16        \* tallest terminal delivered by a resize
MaxDist == 9      \* gameplay ticks explored per run
MaxTime == 4      \* last clock reading explored (seconds)

\* ---------------------------------------------------------------------------
\* Program constants (src/main.go, const block)
\* ---------------------------------------------------------------------------
startFrame == 45000000
gameOverTick == 250000000
cooldownSeconds == 2
gravity == 1
jumpVel == 0 - 4
minGapCells == 4

\* the zero time.Time of model.restartAt, earlier than every clock reading
zeroTime == 0

\* loadHighScore() when the score file is missing: a first launch
noHighScore == 0

\* terminal sizes delivered by WindowSizeMsg: a collapsed and a full terminal
Sizes == {<<0, 0>>, <<MaxW, MaxH>>}
Keys == {"q", "ctrl+c", " ", "w", "x"}
Kinds == {"hole", "rock"}
\* one tick's draws from rng: roll is rng.Float64() < 0.12, kind the second
\* Float64 draw, off is rng.Intn(4); kind and off are drawn only after a roll
Draws ==
  {[roll |-> FALSE, kind |-> "hole", off |-> 0]} \cup
  {[roll |-> TRUE, kind |-> k, off |-> o] : k \in Kinds, o \in 0..3}

VARIABLES
  m,          \* the model struct (value threaded through Update)
  now,        \* the last reading of the wall clock (time.Now() never runs backwards)
  pending,    \* bag of the ticks scheduled by tea.Tick and not yet delivered
  file,       \* the integer stored in the high-score file
  quit        \* tea.Quit was returned: the program has terminated

vars == <<m, now, pending, file, quit>>

\* ---------------------------------------------------------------------------
\* Commands and messages
\* ---------------------------------------------------------------------------
\* tickAfter(d, gen): a timer of d nanoseconds that delivers tickMsg{gen}
tickAfter(d, gen) == [gen |-> gen, d |-> d]

\* switch msg.String(): the branch of Update a key press takes
keyAction(k) ==
  IF k \in {"q", "ctrl+c"} THEN "quit"
  ELSE IF k \in {" ", "w"} THEN "jump"
  ELSE "other"

\* Go's integer division truncates toward zero
goDiv(a, b) == IF a >= 0 THEN a \div b ELSE 0 - ((0 - a) \div b)

\* ---------------------------------------------------------------------------
\* initialModel, recalcSizes, restart, setGameOver
\* ---------------------------------------------------------------------------
initialModel(loaded) ==
  [w |-> 0, h |-> 0, gameRows |-> 0, gameCols |-> 0,
   frameDur |-> startFrame, tickGen |-> 0,
   dist |-> 0, playerY |-> 0, velY |-> 0, obstacles |-> <<>>,
   highScore |-> loaded, gameOver |-> FALSE, restartAt |-> zeroTime]

\* variant: the resize leaves the character where it was
recalcSizes_noPlayer(mm) ==
  LET rows0 == mm.h - 1 - 1 - (2 * 3)
      rows == IF rows0 < 5 THEN 5 ELSE rows0
      cols0 == goDiv(mm.w - 2, 2)
      cols == IF cols0 < 10 THEN 10 ELSE cols0
  IN [mm EXCEPT !.gameRows = rows, !.gameCols = cols]

\* variant: the grid is computed without its minimums
recalcSizes_noFloor(mm) ==
  LET rows == mm.h - 1 - 1 - (2 * 3)
      cols == goDiv(mm.w - 2, 2)
  IN [mm EXCEPT !.gameRows = rows, !.gameCols = cols, !.playerY = rows - 2]

recalcSizes(mm) ==
  LET rows0 == mm.h - 1 - 1 - (2 * 3)
      rows == IF rows0 < 5 THEN 5 ELSE rows0
      cols0 == goDiv(mm.w - 2, 2)
      cols == IF cols0 < 10 THEN 10 ELSE cols0
  IN [mm EXCEPT !.gameRows = rows, !.gameCols = cols, !.playerY = rows - 2]

\* variant: the generation is not bumped
restart_sameGen(mm) ==
  [mm EXCEPT !.dist = 0, !.playerY = mm.gameRows - 2, !.velY = 0,
             !.obstacles = <<>>, !.frameDur = startFrame,
             !.gameOver = FALSE]

\* variant: the restart also clears the high score
restart_clearsScore(mm) ==
  [mm EXCEPT !.dist = 0, !.playerY = mm.gameRows - 2, !.velY = 0,
             !.obstacles = <<>>, !.frameDur = startFrame,
             !.gameOver = FALSE, !.tickGen = mm.tickGen + 1, !.highScore = 0]

restart(mm) ==
  [mm EXCEPT !.dist = 0, !.playerY = mm.gameRows - 2, !.velY = 0,
             !.obstacles = <<>>, !.frameDur = startFrame,
             !.gameOver = FALSE, !.tickGen = mm.tickGen + 1]

\* variant: the new high score is kept in memory but never saved
setGameOver_noSave(r, t) ==
  LET m1 == [r.m EXCEPT !.gameOver = TRUE, !.restartAt = t + cooldownSeconds]
  IN IF m1.dist > m1.highScore
       THEN [m |-> [m1 EXCEPT !.highScore = m1.dist], file |-> r.file]
       ELSE [m |-> m1, file |-> r.file]

\* r = [m, file]: the model and the score file; saveHighScore overwrites the file
setGameOver(r, t) ==
  LET m1 == [r.m EXCEPT !.gameOver = TRUE, !.restartAt = t + cooldownSeconds]
  IN IF m1.dist > m1.highScore
       THEN [m |-> [m1 EXCEPT !.highScore = m1.dist], file |-> m1.dist]
       ELSE [m |-> m1, file |-> r.file]

\* ---------------------------------------------------------------------------
\* Update: key handling
\* ---------------------------------------------------------------------------
isQuitKey(k) == keyAction(k) = "quit"
isJumpKey(k) == keyAction(k) = "jump"

\* variant: the cooldown ends a second early
restartAllowed_early(mm, t) == t >= mm.restartAt - 1

\* time.Now().After(m.restartAt)
restartAllowed(mm, t) == t > mm.restartAt

\* variant: a jump is accepted in mid-air
canJump_always(mm) == TRUE

\* variant: the jump test compares with <= instead of ==
canJump_orAbove(mm) == mm.playerY <= mm.gameRows - 2

canJump(mm) == mm.playerY = mm.gameRows - 2

\* ---------------------------------------------------------------------------
\* Update: the gameplay step of a tick
\* ---------------------------------------------------------------------------
\* variant: only ticks of a later generation are dropped
staleTick_olderAccepted(mm, g) == g > mm.tickGen

staleTick(mm, g) == g # mm.tickGen

\* variant: landing clamps the height but keeps the velocity
physics_keepVel(mm) ==
  LET v == mm.velY + gravity
      y == mm.playerY + v
  IN IF y >= mm.gameRows - 2
       THEN [mm EXCEPT !.playerY = mm.gameRows - 2, !.velY = v]
       ELSE [mm EXCEPT !.playerY = y, !.velY = v]

\* variant: no landing clamp
physics_noClamp(mm) ==
  LET v == mm.velY + gravity
      y == mm.playerY + v
  IN [mm EXCEPT !.playerY = y, !.velY = v]

\* variant: the character moves before gravity is added to the velocity
physics_moveFirst(mm) ==
  LET y == mm.playerY + mm.velY
      v == mm.velY + gravity
  IN IF y >= mm.gameRows - 2
       THEN [mm EXCEPT !.playerY = mm.gameRows - 2, !.velY = 0]
       ELSE [mm EXCEPT !.playerY = y, !.velY = v]

physics(mm) ==
  LET v == mm.velY + gravity
      y == mm.playerY + v
  IN IF y >= mm.gameRows - 2
       THEN [mm EXCEPT !.playerY = mm.gameRows - 2, !.velY = 0]
       ELSE [mm EXCEPT !.playerY = y, !.velY = v]

\* variant: an obstacle is dropped as soon as it leaves the grid, at x = -1
shiftObstacles_dropEarly(obs) ==
  SelectSeq([i \in DOMAIN obs |-> [obs[i] EXCEPT !.x = @ - 1]],
            LAMBDA ob : ob.x >= 0)

shiftObstacles(obs) ==
  SelectSeq([i \in DOMAIN obs |-> [obs[i] EXCEPT !.x = @ - 1]],
            LAMBDA ob : ob.x >= 0 - 1)

furthest(obs) ==
  LET S == {obs[i].x : i \in DOMAIN obs} \cup {0 - 1}
  IN CHOOSE a \in S : \A b \in S : b <= a

\* variant: the spawn is not gated on the furthest obstacle
spawn_ungated(mm, roll, kind, off) ==
  IF roll
    THEN [mm EXCEPT !.obstacles = Append(@, [x |-> mm.gameCols + off, typ |-> kind])]
    ELSE mm

spawn(mm, roll, kind, off) ==
  IF furthest(mm.obstacles) < mm.gameCols - minGapCells - 1 /\ roll
    THEN [mm EXCEPT !.obstacles = Append(@, [x |-> mm.gameCols + off, typ |-> kind])]
    ELSE mm

holeHit(mm) == mm.playerY >= mm.gameRows - 2

\* variant: a rock hits whatever the height
rockHit_always(mm) == TRUE

rockHit(mm) == mm.playerY = mm.gameRows - 2

hits(mm, ob) ==
  /\ ob.x = 2
  /\ \/ ob.typ = "hole" /\ holeHit(mm)
     \/ ob.typ = "rock" /\ rockHit(mm)

RECURSIVE collision(_, _, _)
collision(r, i, t) ==
  IF i > Len(r.m.obstacles) THEN r
  ELSE collision(IF hits(r.m, r.m.obstacles[i]) THEN setGameOver(r, t) ELSE r,
                 i + 1, t)

\* variant: the speed-up computed with integer division, d - d / 500
accelerate_intDiv(d) == d - (d \div 500)

\* time.Duration(float64(m.frameDur) * accelFactor): the product 0.998 * d
\* truncated to whole nanoseconds, floor(d * 998 / 1000) = d - ceil(d / 500)
\* (written without the intermediate product, which exceeds 32 bits)
accelerate(d) == d - ((d + 499) \div 500)

gameplayStep(mm, f, roll, kind, off, t) ==
  LET m1 == [mm EXCEPT !.dist = mm.dist + 1]
      m2 == physics(m1)
      m3 == [m2 EXCEPT !.obstacles = shiftObstacles(m2.obstacles)]
      m4 == spawn(m3, roll, kind, off)
      r == collision([m |-> m4, file |-> f], 1, t)
  IN [r EXCEPT !.m.frameDur = accelerate(r.m.frameDur)]

\* a tick of the current generation while Running: nothing happens before the
\* first resize, a gameplay step after it; dr is the tick's draws from rng
tickRunning(mm, f, dr, t) ==
  IF mm.gameRows = 0 \/ mm.gameCols = 0
    THEN [m |-> mm, file |-> f]
    ELSE gameplayStep(mm, f, dr.roll, dr.kind, dr.off, t)

\* ---------------------------------------------------------------------------
\* View: the last line of the game-over panel
\* ---------------------------------------------------------------------------
countdown(mm, t) == IF mm.restartAt - t > 0 THEN mm.restartAt - t ELSE 0
panelLine(mm, t) == IF countdown(mm, t) > 0 THEN "countdown" ELSE "press"

\* ---------------------------------------------------------------------------
\* Initial state: initialModel() followed by model.Init()
\* ---------------------------------------------------------------------------
Init ==
  /\ m = initialModel(noHighScore)
  /\ file = noHighScore
  /\ now = 1
  /\ pending = SetToBag({tickAfter(m.frameDur, m.tickGen)})
  /\ quit = FALSE

\* the readings time.Now() can return: not earlier than the last one
Readings == now..MaxTime

\* a tick leaves the scheduler when it is delivered to Update
deliver(p) == pending (-) SetToBag({p})
schedule(bag, c) == bag (+) SetToBag({c})

\* ---------------------------------------------------------------------------
\* Actions: one per message and branch of model.Update
\* ---------------------------------------------------------------------------
Resize(nw, nh) ==
  /\ ~quit
  /\ m' = recalcSizes([m EXCEPT !.w = nw, !.h = nh])
  /\ UNCHANGED <<now, pending, file, quit>>

\* variant: quitting in mid-run records the distance as a score
KeyQuit_savesScore(k) ==
  /\ ~quit
  /\ isQuitKey(k)
  /\ quit' = TRUE
  /\ IF m.dist > m.highScore
       THEN m' = [m EXCEPT !.highScore = m.dist] /\ file' = m.dist
       ELSE UNCHANGED <<m, file>>
  /\ UNCHANGED <<now, pending>>

KeyQuit(k) ==
  /\ ~quit
  /\ isQuitKey(k)
  /\ quit' = TRUE
  /\ UNCHANGED <<m, now, pending, file>>

\* variant: the restart resets the run but schedules no tick
KeyRestart_noTick(k, t) ==
  /\ ~quit
  /\ isJumpKey(k)
  /\ m.gameOver
  /\ restartAllowed(m, t)
  /\ now' = t
  /\ m' = restart(m)
  /\ UNCHANGED <<pending, file, quit>>

KeyRestart(k, t) ==
  /\ ~quit
  /\ isJumpKey(k)
  /\ m.gameOver
  /\ restartAllowed(m, t)
  /\ now' = t
  /\ m' = restart(m)
  /\ pending' = schedule(pending, tickAfter(m'.frameDur, m'.tickGen))
  /\ UNCHANGED <<file, quit>>

KeyCooldown(k, t) ==
  /\ ~quit
  /\ isJumpKey(k)
  /\ m.gameOver
  /\ ~restartAllowed(m, t)
  /\ now' = t
  /\ UNCHANGED <<m, pending, file, quit>>

KeyJump(k) ==
  /\ ~quit
  /\ isJumpKey(k)
  /\ ~m.gameOver
  /\ m' = IF canJump(m) THEN [m EXCEPT !.velY = jumpVel] ELSE m
  /\ UNCHANGED <<now, pending, file, quit>>

KeyOther(k) ==
  /\ ~quit
  /\ ~isQuitKey(k)
  /\ ~isJumpKey(k)
  /\ UNCHANGED <<m, now, pending, file, quit>>

TickStale(p) ==
  /\ ~quit
  /\ BagIn(p, pending)
  /\ staleTick(m, p.gen)
  /\ pending' = deliver(p)
  /\ UNCHANGED <<m, now, file, quit>>

\* variant: the obstacles keep scrolling behind the game-over panel
TickGameOver_scrolls(p) ==
  /\ ~quit
  /\ BagIn(p, pending)
  /\ ~staleTick(m, p.gen)
  /\ m.gameOver
  /\ m' = [m EXCEPT !.obstacles = shiftObstacles(@)]
  /\ pending' = schedule(deliver(p), tickAfter(gameOverTick, m.tickGen))
  /\ UNCHANGED <<now, file, quit>>

TickGameOver(p) ==
  /\ ~quit
  /\ BagIn(p, pending)
  /\ ~staleTick(m, p.gen)
  /\ m.gameOver
  /\ pending' = schedule(deliver(p), tickAfter(gameOverTick, m.tickGen))
  /\ UNCHANGED <<m, now, file, quit>>

\* the run itself never reads the clock: the reading setGameOver takes is the
\* latest one, and the events that follow choose how much later they happen
TickRunning(p, dr) ==
  /\ ~quit
  /\ BagIn(p, pending)
  /\ ~staleTick(m, p.gen)
  /\ ~m.gameOver
  /\ m.dist < MaxDist
  /\ LET r == tickRunning(m, file, dr, now)
     IN /\ m' = r.m
        /\ file' = r.file
        /\ pending' = schedule(deliver(p), tickAfter(r.m.frameDur, r.m.tickGen))
  /\ UNCHANGED <<now, quit>>

Next ==
  \/ \E sz \in Sizes : Resize(sz[1], sz[2])
  \/ \E k \in Keys : KeyQuit(k)
  \/ \E k \in Keys, t \in Readings : KeyRestart(k, t)
  \/ \E k \in Keys, t \in Readings : KeyCooldown(k, t)
  \/ \E k \in Keys : KeyJump(k)
  \/ \E k \in Keys : KeyOther(k)
  \/ \E p \in BagToSet(pending) : TickStale(p)
  \/ \E p \in BagToSet(pending) : TickGameOver(p)
  \/ \E p \in BagToSet(pending), dr \in Draws : TickRunning(p, dr)

Spec == Init /\ [][Next]_vars


\* ---------------------------------------------------------------------------
\* Vocabulary of the properties
\* ---------------------------------------------------------------------------
restHeight(mm) == mm.gameRows - 2
sized(mm) == ~(mm.gameRows = 0 \/ mm.gameCols = 0)
atColumn2(mm) == \E i \in DOMAIN mm.obstacles : mm.obstacles[i].x = 2

\* this step is Update handling the pending tick p
TickDelivered(p) ==
  \/ TickStale(p)
  \/ TickGameOver(p)
  \/ \E dr \in Draws : TickRunning(p, dr)

\* this step is Update handling a resize
ResizeDelivered == \E sz \in Sizes : Resize(sz[1], sz[2])

\* this step is Update handling a jump key while Running
JumpKeyWhileRunning == \E k \in Keys : KeyJump(k)

\* this step is Update handling a jump key in GameOver, the clock reading t
JumpKeyInGameOver(t) == \E k \in Keys : KeyCooldown(k, t) \/ KeyRestart(k, t)

\* this step is a gameplay step: only it counts distance up
GameplayTick == ~m.gameOver /\ m'.dist = m.dist + 1

\* this step is a restart
RestartStep == m.gameOver /\ ~m'.gameOver

\* this step is a collision
CollisionStep == ~m.gameOver /\ m'.gameOver

\* the state of a run after a full reset by a restart from mm
resetFrom(mm) ==
  [mm EXCEPT !.dist = 0, !.obstacles = <<>>, !.frameDur = startFrame, !.velY = 0,
             !.playerY = mm.gameRows - 2, !.gameOver = FALSE,
             !.tickGen = mm.tickGen + 1]

\* ticks after which a jump has landed: 2 * |jumpVel| / gravity - 1
settleTicks == ((2 * (0 - jumpVel)) \div gravity) - 1

RECURSIVE physicsN(_, _)
physicsN(mm, n) == IF n = 0 THEN mm ELSE physicsN(physics(mm), n - 1)

\* with no jump input the character is at rest height, velocity 0, after
\* settleTicks physics steps and stays there on the next one
settles(mm) ==
  LET e == physicsN(mm, settleTicks)
      e1 == physics(e)
  IN /\ e.playerY = restHeight(mm) /\ e.velY = 0
     /\ e1.playerY = restHeight(mm) /\ e1.velY = 0

\* ---------------------------------------------------------------------------
\* C1: a tick whose generation differs from the current generation changes no
\* field of the model (nor the score file) and schedules nothing: the
\* scheduler only loses the delivered tick. Holds in Running and in GameOver.
\* ---------------------------------------------------------------------------
C1_StaleTickDiscarded ==
  [][\A p \in BagToSet(pending) :
       (p.gen # m.tickGen /\ TickDelivered(p))
         => (m' = m /\ file' = file /\ pending' = pending (-) SetToBag({p}))]_vars

\* a restart has happened, ticks of the new run have been counted and the tick
\* left over from the run before has been delivered (a restart leaves it
\* pending)
C1_Witness ==
  /\ m.tickGen = 1
  /\ m.dist > 0
  /\ \A p \in BagToSet(pending) : p.gen = m.tickGen

\* ---------------------------------------------------------------------------
\* C2: every GameOver -> Running transition resets distance, obstacles, frame
\* interval, velocity and height, clears isOver, adds one to the generation
\* and schedules exactly one tick, after startFrame, tagged with the new
\* generation.
\* ---------------------------------------------------------------------------
C2_RestartResets ==
  [][RestartStep =>
       /\ m'.dist = 0
       /\ m'.obstacles = <<>>
       /\ m'.frameDur = startFrame
       /\ m'.velY = 0
       /\ m'.playerY = m'.gameRows - 2
       /\ m'.gameOver = FALSE
       /\ m'.tickGen = m.tickGen + 1
       /\ pending' = pending (+) SetToBag({tickAfter(startFrame, m.tickGen + 1)})]_vars

\* the state right after a restart: the tick of the run before still pending
C2_Witness ==
  /\ m.tickGen = 1
  /\ m.dist = 0
  /\ ~m.gameOver
  /\ BagIn(tickAfter(startFrame, 1), pending)
  /\ \E p \in BagToSet(pending) : p.gen = 0

\* ---------------------------------------------------------------------------
\* C3: a gameplay tick ends the run iff, after scrolling, an obstacle (hole or
\* rock) is at column 2 and the character is at rest height after the physics
\* step of that tick.
\* ---------------------------------------------------------------------------
C3_CollisionIffGrounded ==
  [][GameplayTick =>
       (m'.gameOver <=> (atColumn2(m') /\ m'.playerY = restHeight(m')))]_vars

\* the character is in the air over a rock at column 2 and the run goes on
C3_Witness ==
  /\ ~m.gameOver
  /\ m.playerY < restHeight(m)
  /\ \E i \in DOMAIN m.obstacles : m.obstacles[i].x = 2 /\ m.obstacles[i].typ = "rock"

\* ---------------------------------------------------------------------------
\* C4: a jump key while Running sets verticalVelocity to jumpVel when the
\* character is at rest height and changes nothing else; in mid-air it changes
\* nothing at all.
\* ---------------------------------------------------------------------------
C4_JumpOnlyFromGround ==
  [][JumpKeyWhileRunning =>
       /\ m' = IF m.playerY = restHeight(m) THEN [m EXCEPT !.velY = jumpVel] ELSE m
       /\ pending' = pending
       /\ file' = file]_vars

\* a jump has been accepted in the middle of a run
C4_Witness ==
  /\ ~m.gameOver
  /\ m.dist > 0
  /\ m.playerY = restHeight(m)
  /\ m.velY = jumpVel

\* ---------------------------------------------------------------------------
\* C5: a jump key in GameOver at a clock reading before restartEligibleAt
\* changes nothing and schedules nothing; and a restart never reads the clock
\* less than cooldownSeconds after the collision (restartAt - cooldownSeconds).
\* ---------------------------------------------------------------------------
C5_CooldownIgnoresInput ==
  [][/\ \A t \in Readings :
          (t < m.restartAt /\ JumpKeyInGameOver(t))
            => (m' = m /\ pending' = pending /\ file' = file)
     /\ RestartStep => now' - (m.restartAt - cooldownSeconds) >= cooldownSeconds]_vars

\* a key has been pressed in GameOver during the cooldown: the clock has been
\* read after the collision and before restartAt
C5_Witness ==
  /\ m.gameOver
  /\ now > m.restartAt - cooldownSeconds
  /\ now < m.restartAt

\* ---------------------------------------------------------------------------
\* C6: a jump key in GameOver at any clock reading >= restartEligibleAt, the
\* readings at which the panel shows "press to go again", restarts the game
\* with a full reset.
\* ---------------------------------------------------------------------------
C6_RestartFromEligibleTime ==
  [][\A t \in Readings :
       (t >= m.restartAt /\ JumpKeyInGameOver(t))
         => (panelLine(m, t) = "press" /\ m' = resetFrom(m))]_vars

\* ---------------------------------------------------------------------------
\* C7: a collision sets restartEligibleAt to the clock reading plus
\* cooldownSeconds; the high score becomes the distance and is written to the
\* file iff distance > highScore, otherwise neither changes.
\* ---------------------------------------------------------------------------
C7_GameOverRecords ==
  [][CollisionStep =>
       /\ m'.restartAt = now' + cooldownSeconds
       /\ IF m'.dist > m.highScore
            THEN m'.highScore = m'.dist /\ file' = m'.dist
            ELSE m'.highScore = m.highScore /\ file' = file]_vars

\* the second run has ended too, its distance not above the high score
C7_Witness ==
  /\ m.gameOver
  /\ m.tickGen = 1
  /\ m.dist <= m.highScore
  /\ file = m.highScore

\* ---------------------------------------------------------------------------
\* C8 as claimed: while Running every tick of the current generation adds 1
\* to distance and moves the character by one physics step, nothing else
\* changes distance, and with no jump input the character comes to rest height
\* and stays there.
\* ---------------------------------------------------------------------------
C8_EveryAcceptedTickCounts ==
  /\ [](~m.gameOver =>
          /\ \A dr \in Draws :
               LET r == tickRunning(m, file, dr, now).m
               IN /\ r.dist = m.dist + 1
                  /\ r.playerY = physics(m).playerY
                  /\ r.velY = physics(m).velY
          /\ settles(m))
  /\ [][(~m.gameOver /\ m'.dist # m.dist) =>
          \E p \in BagToSet(pending) : p.gen = m.tickGen /\ TickDelivered(p)]_vars

\* C8 amended: while Running and once the grid has been sized by a resize,
\* every tick of the current generation adds 1 to distance and moves the
\* character by one physics step, so that with no jump input it is at rest
\* height with velocity 0 within settleTicks ticks and stays there; before the
\* first resize such a tick changes nothing; no other event changes distance.
C8_SizedTickCounts ==
  /\ [](~m.gameOver =>
          /\ \A dr \in Draws :
               LET r == tickRunning(m, file, dr, now).m
               IN IF sized(m)
                    THEN /\ r.dist = m.dist + 1
                         /\ r.playerY = physics(m).playerY
                         /\ r.velY = physics(m).velY
                    ELSE r = m
          /\ sized(m) => settles(m))
  /\ [][(~m.gameOver /\ m'.dist # m.dist) =>
          \E p \in BagToSet(pending) : p.gen = m.tickGen /\ TickDelivered(p)]_vars

\* ticks have been counted and the character has come down from a jump
C8_Witness ==
  /\ ~m.gameOver
  /\ sized(m)
  /\ m.dist > settleTicks
  /\ m.playerY = restHeight(m)
  /\ m.velY = 0

\* ---------------------------------------------------------------------------
\* C9 as claimed: a resize while Running leaves distance, playerHeight,
\* velocity, obstacles, frame interval, generation, isOver and high score
\* unchanged and schedules nothing.
\* ---------------------------------------------------------------------------
C9_ResizeKeepsRunState ==
  [][(~m.gameOver /\ ResizeDelivered) =>
       /\ m'.dist = m.dist
       /\ m'.playerY = m.playerY
       /\ m'.velY = m.velY
       /\ m'.obstacles = m.obstacles
       /\ m'.frameDur = m.frameDur
       /\ m'.tickGen = m.tickGen
       /\ m'.gameOver = m.gameOver
       /\ m'.highScore = m.highScore
       /\ pending' = pending]_vars

\* C9 amended: a resize while Running recomputes the grid and puts the
\* character at the new rest height (rows - 2) wherever it was; distance,
\* velocity, obstacles, frame interval, generation, isOver and high score are
\* unchanged and nothing is scheduled.
C9_ResizeGroundsPlayer ==
  [][(~m.gameOver /\ ResizeDelivered) =>
       /\ m'.playerY = m'.gameRows - 2
       /\ m'.dist = m.dist
       /\ m'.velY = m.velY
       /\ m'.obstacles = m.obstacles
       /\ m'.frameDur = m.frameDur
       /\ m'.tickGen = m.tickGen
       /\ m'.gameOver = m.gameOver
       /\ m'.highScore = m.highScore
       /\ m'.restartAt = m.restartAt
       /\ pending' = pending
       /\ file' = file]_vars

\* a resize has arrived in mid-air: the character is on the ground and still
\* moving upwards (a jump starts at jumpVel, a landing ends at 0)
C9_Witness ==
  /\ ~m.gameOver
  /\ m.dist > 0
  /\ m.playerY = restHeight(m)
  /\ m.velY < 0
  /\ m.velY > jumpVel

\* ---------------------------------------------------------------------------
\* C10 as claimed: playerHeight <= rows - 2 in every reachable state.
\* ---------------------------------------------------------------------------
C10_NeverBelowRest == m.playerY <= m.gameRows - 2

\* C10 amended: playerHeight <= rows - 2 in every reachable state whose grid
\* has been sized by a resize (before the first resize rows = 0 and
\* playerHeight = 0).
C10_NeverBelowRestOnceSized == m.gameRows # 0 => m.playerY <= m.gameRows - 2

\* a second run, after ticks, a jump and a restart, with the character in the air
C10_Witness ==
  /\ m.tickGen = 1
  /\ m.dist > 0
  /\ m.playerY < restHeight(m)


\* ---------------------------------------------------------------------------
\* C11: frameInterval never increases within a run. Every gameplay tick (also
\* the one that ends the run) replaces it by 0.998 * frameInterval truncated to
\* whole nanoseconds, with no floor: the new value d' is the integer with
\* 1000 * d' <= 998 * d < 1000 * (d' + 1), that is, with k = d - d',
\* 500 * (k - 1) < d <= 500 * k. A restart sets it to startFrame; no other
\* event (key, resize, stale tick, GameOver tick, tick before the first
\* resize) changes it.
\* ---------------------------------------------------------------------------
C11_FrameIntervalRamp ==
  [][IF GameplayTick
       THEN LET k == m.frameDur - m'.frameDur
            IN /\ 500 * (k - 1) < m.frameDur
               /\ m.frameDur <= 500 * k
               /\ m'.frameDur < m.frameDur
       ELSE IF RestartStep
         THEN m'.frameDur = startFrame
         ELSE m'.frameDur = m.frameDur]_vars

\* a second run has been sped up again after the restart set the interval back
C11_Witness ==
  /\ m.tickGen = 1
  /\ m.dist >= 3
  /\ m.frameDur < startFrame
  /\ m.frameDur > 0

\* this step is Update returning tea.Quit
QuitStep == ~quit /\ quit'

\* ---------------------------------------------------------------------------
\* C12: a quit key terminates the program at once, in Running and in GameOver
\* alike, and changes no field of the model: no high-score update, no write
\* to the score file, no generation change, no tick scheduled. A terminated
\* program takes no further step.
\* ---------------------------------------------------------------------------
C12_QuitChangesNothing ==
  [][/\ ~quit
     /\ (\E k \in Keys : isQuitKey(k) /\ KeyQuit(k)) => quit'
     /\ QuitStep => (m' = m /\ file' = file /\ pending' = pending)]_vars

\* the program was quit in GameOver, in a second run that was under way
C12_Witness ==
  /\ quit
  /\ m.gameOver
  /\ m.tickGen = 1

\* ---------------------------------------------------------------------------
\* Resizes alone: every terminal size from 0 x 0 up to MaxW x MaxH
\* ---------------------------------------------------------------------------
Widths == 0..MaxW
Heights == 0..MaxH

NextSizes == \E nw \in Widths, nh \in Heights : Resize(nw, nh)

SpecSizes == Init /\ [][NextSizes]_vars

Max(a, b) == IF a >= b THEN a ELSE b

\* ---------------------------------------------------------------------------
\* C13: after every resize, whatever the width and height (0 and tiny values
\* included), rows = max(5, height - 8), cols = max(10, (width - 2) / 2) and
\* the rest height, where the character is put, is rows - 2; so rows >= 5 and
\* cols >= 10 from the first resize on. Before it the grid is 0 x 0.
\* ---------------------------------------------------------------------------
C13_GridMinimums ==
  IF sized(m)
    THEN /\ m.gameRows = Max(5, m.h - 8)
         /\ m.gameCols = Max(10, goDiv(m.w - 2, 2))
         /\ m.playerY = m.gameRows - 2
         /\ m.gameRows >= 5
         /\ m.gameCols >= 10
    ELSE m = initialModel(noHighScore)

\* a resize to a terminal of one column and no row: both minimums apply
C13_Witness ==
  /\ sized(m)
  /\ m.w = 1
  /\ m.h = 0

\* the number of pending ticks that carry generation g
RECURSIVE countOf(_, _)
countOf(S, bag) ==
  IF S = {} THEN 0
  ELSE LET p == CHOOSE q \in S : TRUE
       IN CopiesIn(p, bag) + countOf(S \ {p}, bag)

liveTicks == countOf({p \in BagToSet(pending) : p.gen = m.tickGen}, pending)
staleTicks == countOf({p \in BagToSet(pending) : p.gen # m.tickGen}, pending)

\* ---------------------------------------------------------------------------
\* C14: in every reachable state of a program that has not terminated exactly
\* one pending tick carries the current generation: the game neither stalls
\* (no live tick) nor runs several tick chains at once, whatever the number of
\* restarts and of stale ticks still in flight.
\* ---------------------------------------------------------------------------
C14_OneLiveTick == ~quit => liveTicks = 1

\* after a restart, its run under way, the tick of the run before still in flight
C14_Witness ==
  /\ ~quit
  /\ m.tickGen = 1
  /\ m.dist > 0
  /\ staleTicks = 1
  /\ liveTicks = 1

\* ---------------------------------------------------------------------------
\* C15: a gameplay tick appends at most one obstacle to those that survive the
\* scroll, only when every survivor is left of cols - minGapCells - 1, and
\* places it at cols .. cols + 3; so in every reachable state, resizes that
\* change cols included, the obstacles stand in spawn order from left to
\* right, any two more than minGapCells cells apart, and at most one of them
\* is at the detection column.
\* ---------------------------------------------------------------------------
C15_SpawnGating ==
  /\ [](/\ \A i, j \in DOMAIN m.obstacles :
             i < j => m.obstacles[j].x - m.obstacles[i].x > minGapCells
        /\ Cardinality({i \in DOMAIN m.obstacles : m.obstacles[i].x = 2}) <= 1)
  /\ [][IF GameplayTick
          THEN LET kept == shiftObstacles(m.obstacles)
                   n == Len(m'.obstacles)
               IN \/ m'.obstacles = kept
                  \/ /\ n = Len(kept) + 1
                     /\ SubSeq(m'.obstacles, 1, n - 1) = kept
                     /\ \A i \in DOMAIN kept : kept[i].x < m.gameCols - minGapCells - 1
                     /\ m'.obstacles[n].x \in m.gameCols .. (m.gameCols + 3)
                     /\ m'.obstacles[n].typ \in Kinds
          ELSE Len(m'.obstacles) <= Len(m.obstacles)]_vars

\* two obstacles at the closest the gate allows, minGapCells + 2 cells apart
C15_Witness ==
  /\ Len(m.obstacles) = 2
  /\ m.obstacles[2].x - m.obstacles[1].x = minGapCells + 2

\* ---------------------------------------------------------------------------
\* C16 as claimed: for every grid the resize minimums permit (rows >= 5),
\* playerHeight stays inside the playable band 0 .. rows - 2.
\* ---------------------------------------------------------------------------
C16_InsideBand ==
  m.gameRows >= 5 => (0 <= m.playerY /\ m.playerY <= m.gameRows - 2)

\* C16 amended: for every grid the resize minimums permit (rows >= 5),
\* playerHeight stays inside rows - 8 .. rows - 2, at most 6 rows above rest
\* height: a jump rises 6 rows, so the character stays on the grid
\* (playerHeight >= 0) only when rows >= 8 and leaves it through the top, to
\* negative heights that renderGame skips, on smaller grids.
C16_WithinJumpReach ==
  m.gameRows >= 5 =>
    /\ m.gameRows - 8 <= m.playerY
    /\ m.playerY <= m.gameRows - 2
    /\ (m.gameRows >= 8 => m.playerY >= 0)

\* the top of a jump on a grid of fewer than 8 rows: above the top row
C16_Witness ==
  /\ m.gameRows >= 5
  /\ m.playerY < 0
  /\ m.playerY = m.gameRows - 8

\* ---------------------------------------------------------------------------
\* C17: the per-tick update runs only in Running. A tick of the current
\* generation delivered in GameOver changes no field of the model and nothing
\* in the score file, no obstacle moves or spawns, and the only effect is the
\* next tick, scheduled after gameOverTick with the same generation.
\* ---------------------------------------------------------------------------
C17_GameOverTickOnlyReschedules ==
  [][\A p \in BagToSet(pending) :
       (m.gameOver /\ p.gen = m.tickGen /\ TickDelivered(p))
         => /\ m' = m
            /\ file' = file
            /\ pending' = (pending (-) SetToBag({p}))
                            (+) SetToBag({[gen |-> m.tickGen, d |-> gameOverTick]})]_vars

\* the countdown is being refreshed: the live tick is one scheduled in GameOver
C17_Witness ==
  /\ m.gameOver
  /\ BagIn([gen |-> m.tickGen, d |-> gameOverTick], pending)

\* the obstacle spawned last, at position p, followed through the scrolls of
\* the gameplay ticks after its spawn tick (n of them so far): it moves left by
\* exactly 1 per tick, is at the detection column on the (p - 2)-th tick and on
\* no other, is still kept at position -1 and is removed on the tick after
RECURSIVE arrives(_, _, _)
arrives(obs, p, n) ==
  IF n = p + 2 THEN obs = <<>>
  ELSE /\ obs # <<>>
       /\ obs[Len(obs)].x = p - n
       /\ (obs[Len(obs)].x = 2 <=> n = p - 2)
       /\ arrives(shiftObstacles(obs), p, n + 1)

\* ---------------------------------------------------------------------------
\* C18: every gameplay tick moves every surviving obstacle left by exactly 1,
\* keeps their order and kinds, removes exactly those whose new position is
\* below -1, and a spawn only appends, changing no existing obstacle; so an
\* obstacle spawned at position p is at the detection column on exactly the
\* (p - 2)-th gameplay tick after its spawn tick and on no other.
\* ---------------------------------------------------------------------------
C18_ScrollByOne ==
  [][GameplayTick =>
       LET old == m.obstacles
           new == m'.obstacles
           gone == Cardinality({i \in DOMAIN old : old[i].x - 1 < 0 - 1})
           k == Len(old) - gone
       IN /\ \A i \in 1..gone : old[i].x - 1 < 0 - 1
          /\ Len(new) \in {k, k + 1}
          /\ \A i \in 1..k : new[i] = [old[i + gone] EXCEPT !.x = @ - 1]
          /\ Len(new) = k + 1 => arrives(new, new[k + 1].x, 0)]_vars

\* the first obstacle a 10-column grid can spawn, at position 10 on the first
\* tick, is at the detection column 8 ticks later
C18_Witness ==
  /\ m.gameCols = 10
  /\ m.dist = 9
  /\ m.obstacles # <<>>
  /\ m.obstacles[1].x = 2

\* a gameplay tick with no spawn and no obstacle in the way
quietTick(mm) ==
  tickRunning([mm EXCEPT !.obstacles = <<>>], file,
              [roll |-> FALSE, kind |-> "hole", off |-> 0], now).m

\* the n-th gameplay tick after a jump from rest height has brought the
\* character to mm: in the air, at most 6 rows up, on ticks 1..6, back at rest
\* height with velocity 0 on tick 7
RECURSIVE jumpArc(_, _)
jumpArc(mm, n) ==
  IF n = 7
    THEN mm.playerY = restHeight(mm) /\ mm.velY = 0
    ELSE /\ n > 0 => /\ mm.playerY < restHeight(mm)
                     /\ restHeight(mm) - mm.playerY <= 6
         /\ jumpArc(quietTick(mm), n + 1)

\* ---------------------------------------------------------------------------
\* C19: after a jump accepted at rest height, with no resize in between, the
\* character is in the air on exactly the next 6 gameplay ticks, at most 6
\* rows above rest height, and back at rest height with velocity 0 on the 7th;
\* in every reachable state rest height - playerHeight <= 6 and the velocity
\* is within jumpVel .. 2.
\* ---------------------------------------------------------------------------
C19_JumpArc ==
  /\ restHeight(m) - m.playerY <= 6
  /\ jumpVel <= m.velY
  /\ m.velY <= 2
  /\ (sized(m) /\ m.playerY = restHeight(m) /\ m.velY = jumpVel) => jumpArc(m, 0)

\* the top of a jump, 6 rows above rest height, on a grid that shows it
C19_Witness ==
  /\ sized(m)
  /\ m.playerY = restHeight(m) - 6
  /\ m.velY = 0
  /\ m.playerY >= 0

\* ---------------------------------------------------------------------------
\* C20: the in-memory high score never decreases, whatever the event (a
\* restart and a resize keep it); it changes only on the step from Running to
\* GameOver; and in GameOver highScore >= the distance of the run that ended.
\* ---------------------------------------------------------------------------
C20_HighScoreMonotone ==
  /\ [](m.gameOver => m.highScore >= m.dist)
  /\ [][/\ m'.highScore >= m.highScore
        /\ m'.highScore # m.highScore => CollisionStep]_vars

\* a second run under way, after a restart and a resize, with the score of the
\* first run kept
C20_Witness ==
  /\ ~m.gameOver
  /\ m.tickGen = 1
  /\ m.dist > 0
  /\ m.highScore > m.dist
  /\ m.playerY = restHeight(m)
  /\ m.velY < 0
  /\ m.velY > jumpVel

====
